---- MODULE Spec2Model ----
(***************************************************************************)
(* Model of the timetable processor proof of concept:                      *)
(*   - the upload handler of the Node.js API (POST /timetable/upload),     *)
(*     which spawns the Python processor, collects its stdout and stderr,  *)
(*     recovers the result payload from stdout and reads the database;     *)
(*   - the calendar projector of the React UI (CalendarView).              *)
(* Text is modelled as a sequence of lexemes: every lexeme is either a     *)
(* brace, the newline, or a run of characters holding neither.             *)
(***************************************************************************)
EXTENDS Integers, Sequences, FiniteSets, TLC

(***************************************************************************)
(* Bounds of the model.                                                    *)
(***************************************************************************)
MaxChunks == 2
MaxStderrChunks == 1
MaxActs == 1

VARIABLES
    pc,            \* per request: "new", "running", "closed", "done"
    file,          \* per request: req.file (NoFile or a record with a mimetype)
    stdout,        \* per request: text accumulated from child.stdout
    stderr,        \* per request: text accumulated from child.stderr
    responseSent,  \* per request: the handler's responseSent flag
    responses,     \* per request: the res.status(..).json(..) calls made
    errorEmitted,  \* per request: the child has emitted "error"
    exitCode,      \* per request: the code passed to the "close" listener
    sourceId,      \* per request: result.timetable_source_id read by the listener
    uncaught,      \* per request: an exception escaped a listener
    dbOpened,      \* per request: new Database(DB_PATH) was called
    chunks,        \* per request: number of stdout "data" events so far
    created,       \* per request: the source id its processor run created (0: none)
    sources,       \* table timetable_sources (set of ids)
    activities,    \* table extracted_activities (set of rows)
    calActivities, \* CalendarView: the activities prop
    grid,          \* CalendarView: the activities rendered in each cell
    rendered,      \* CalendarView: the component has rendered
    rerendered,    \* CalendarView: the component has rendered a second time
    uiFile,        \* App: the file state (NoFile for null)
    uploading,     \* App: the uploading state
    response,      \* App: the response state (empty for null)
    uiError,       \* App: the error state (empty for null)
    awaiting,      \* App: handleUpload is suspended at its fetch
    reply,         \* App: what the fetch resolved with (empty: nothing)
    settled,       \* App: how the pending fetch has settled (empty: not yet)
    now,           \* multer: the clock Date.now() reads, in milliseconds
    saved,         \* multer: request -> name of the file it was saved to
    disk           \* uploads directory: file name -> whose upload it holds

apiVars == << pc, file, stdout, stderr, responseSent, responses, errorEmitted,
              exitCode, sourceId, uncaught, dbOpened, chunks, created, sources,
              activities >>
calVars == << calActivities, grid, rendered, rerendered >>
uiVars == << uiFile, uploading, response, uiError, awaiting, reply, settled >>
saveVars == << now, saved, disk >>
vars == << apiVars, calVars, uiVars, saveVars >>

Requests == {"r1"}

(***************************************************************************)
(* Lexemes of the processor's output.                                      *)
(***************************************************************************)
KEY == "\"timetable_source_id\""
NL == "\n"
DigitChars == << "0", "1", "2", "3", "4", "5", "6", "7", "8", "9" >>
Digits == { DigitChars[i] : i \in DOMAIN DigitChars }
DigitValue(d) == (CHOOSE i \in DOMAIN DigitChars : DigitChars[i] = d) - 1

\* What one "data" event of child.stdout may carry.
Payload(d) == << "{", KEY, ":", d, "}" >>
StdoutChunks ==
    { Payload("1"), Payload("2"), << NL >>, << "x" >>, << "{" >>,
      << "null" >>, << "5" >>, << "{", KEY, "}" >> }
StderrChunks == { << "Traceback" >> }

(***************************************************************************)
(* JavaScript values.                                                      *)
(***************************************************************************)
JsUndefined == [t |-> "undefined", n |-> 0, sub |-> << >>]
JsNull == [t |-> "null", n |-> 0, sub |-> << >>]
JsNumber(k) == [t |-> "number", n |-> k, sub |-> << >>]
JsString == [t |-> "string", n |-> 0, sub |-> << >>]
\* An object; sub holds the value of its timetable_source_id member, if any.
JsObject(member) == [t |-> "object", n |-> 0, sub |-> member]

(***************************************************************************)
(* String operations used by the "close" listener.                         *)
(***************************************************************************)
Whitespace == { NL }

RECURSIVE trimStart(_)
trimStart(s) ==
    IF s # << >> /\ Head(s) \in Whitespace THEN trimStart(Tail(s)) ELSE s

RECURSIVE trimEnd(_)
trimEnd(s) ==
    IF s # << >> /\ s[Len(s)] \in Whitespace
    THEN trimEnd(SubSeq(s, 1, Len(s) - 1))
    ELSE s

\* String.prototype.trim
trim(s) == trimEnd(trimStart(s))

\* String.prototype.split('\n'): the pieces between the newlines, at least one.
RECURSIVE split(_)
split(s) ==
    IF \E i \in 1..Len(s) : s[i] = NL
    THEN LET i == CHOOSE k \in 1..Len(s) :
                      s[k] = NL /\ \A m \in 1..(k - 1) : s[m] # NL
         IN  << SubSeq(s, 1, i - 1) >> \o split(SubSeq(s, i + 1, Len(s)))
    ELSE << s >>

\* lines[0] in place of lines.at(-1): the first line of the output.
firstLine(lines) == IF Len(lines) = 0 THEN << >> ELSE lines[1]

\* lines.at(-1) ?? ''
lastLine(lines) == IF Len(lines) = 0 THEN << >> ELSE lines[Len(lines)]

(***************************************************************************)
(* JSON.parse over the lexemes: null, numbers (runs of digits, no leading   *)
(* zero), the string lexeme, and objects with at most one member (there is *)
(* no comma).                                                              *)
(***************************************************************************)
RECURSIVE skipWs(_, _)
skipWs(s, i) ==
    IF i <= Len(s) /\ s[i] \in Whitespace THEN skipWs(s, i + 1) ELSE i

RECURSIVE digitsEnd(_, _)
digitsEnd(s, i) ==
    IF i <= Len(s) /\ s[i] \in Digits THEN digitsEnd(s, i + 1) ELSE i

RECURSIVE digitsValue(_, _, _)
digitsValue(s, i, j) ==
    IF j < i THEN 0 ELSE 10 * digitsValue(s, i, j - 1) + DigitValue(s[j])

ParseFail == [ok |-> FALSE, v |-> JsUndefined, next |-> 0]
ParseOk(v, next) == [ok |-> TRUE, v |-> v, next |-> next]

RECURSIVE parseValue(_, _)
parseValue(s, i) ==
    IF i > Len(s) THEN ParseFail
    ELSE IF s[i] = "null" THEN ParseOk(JsNull, i + 1)
    ELSE IF s[i] = KEY THEN ParseOk(JsString, i + 1)
    ELSE IF s[i] \in Digits
         THEN LET j == IF s[i] = "0" THEN i + 1 ELSE digitsEnd(s, i)
              IN  ParseOk(JsNumber(digitsValue(s, i, j - 1)), j)
    ELSE IF s[i] = "{"
         THEN LET a == skipWs(s, i + 1)
              IN  IF a > Len(s) THEN ParseFail
                  ELSE IF s[a] = "}" THEN ParseOk(JsObject(<< >>), a + 1)
                  ELSE IF s[a] # KEY THEN ParseFail
                  ELSE LET b == skipWs(s, a + 1)
                       IN  IF b > Len(s) \/ s[b] # ":" THEN ParseFail
                           ELSE LET m == parseValue(s, skipWs(s, b + 1))
                                    c == skipWs(s, m.next)
                                IN  IF ~m.ok \/ c > Len(s) \/ s[c] # "}"
                                    THEN ParseFail
                                    ELSE ParseOk(JsObject(<< m.v >>), c + 1)
    ELSE ParseFail

\* JSON.parse(text): ok = FALSE stands for the SyntaxError it throws.
JSONparse(s) ==
    LET r == parseValue(s, skipWs(s, 1))
    IN  IF r.ok /\ skipWs(s, r.next) > Len(s)
        THEN [ok |-> TRUE, v |-> r.v]
        ELSE [ok |-> FALSE, v |-> JsUndefined]

(***************************************************************************)
(* /\{[^{}]*"timetable_source_id"[^{}]*\}(?!.*\{)/                         *)
(***************************************************************************)
Braces == { "{", "}" }

\* (?!.*\{) after position j: no "{" later on the same line ("." stops at NL).
lookaheadOk(s, j) ==
    ~ \E m \in (j + 1)..Len(s) :
          s[m] = "{" /\ \A n \in (j + 1)..(m - 1) : s[n] # NL

\* The regex matches s[i..j]: a "{", no brace up to the closing "}", the key
\* somewhere between them, and the lookahead after the "}".
jsonRegexMatches(s, i, j) ==
    /\ i < j
    /\ s[i] = "{"
    /\ s[j] = "}"
    /\ \A k \in (i + 1)..(j - 1) : s[k] \notin Braces
    /\ \E k \in (i + 1)..(j - 1) : s[k] = KEY
    /\ lookaheadOk(s, j)

\* jsonRegex.exec(text): the leftmost match, or no match.
jsonRegexExec(s) ==
    LET starts == { i \in 1..Len(s) : \E j \in 1..Len(s) : jsonRegexMatches(s, i, j) }
    IN  IF starts = {} THEN [found |-> FALSE, text |-> << >>]
        ELSE LET i == CHOOSE a \in starts : \A b \in starts : a <= b
                 j == CHOOSE b \in 1..Len(s) : jsonRegexMatches(s, i, b)
             IN  [found |-> TRUE, text |-> SubSeq(s, i, j)]

(***************************************************************************)
(* Responses: the arguments of one res.status(status).json(body) call.     *)
(* A member the body does not have is Absent (JsUndefined for code).       *)
(***************************************************************************)
Absent == << "<absent>" >>

\* The activities member of a body that has none.
NoActivities == << [absent |-> TRUE] >>

ErrorBody(status, error, code, details, raw) ==
    [status |-> status, error |-> error, code |-> code, details |-> details,
     raw |-> raw, timetable_source_id |-> 0, activities |-> NoActivities]

SuccessBody(id, acts) ==
    [status |-> 200, error |-> "", code |-> JsUndefined, details |-> Absent,
     raw |-> Absent, timetable_source_id |-> id, activities |-> acts]

\* sendResponse without its responseSent test.
sendResponseUnguarded(sent, soFar, resp) ==
    [responseSent |-> TRUE, responses |-> Append(soFar, resp)]

\* sendResponse(statusCode, data): responds unless a response was sent.
sendResponse(sent, soFar, resp) ==
    IF ~sent
    THEN [responseSent |-> TRUE, responses |-> Append(soFar, resp)]
    ELSE [responseSent |-> sent, responses |-> soFar]

(***************************************************************************)
(* The database as the handler reads it.                                   *)
(***************************************************************************)
\* SELECT ... FROM extracted_activities WHERE source_id = ? ORDER BY id
RECURSIVE orderById(_)
orderById(rows) ==
    IF rows = {} THEN << >>
    ELSE LET first == CHOOSE a \in rows : \A b \in rows : a.id <= b.id
         IN  << first >> \o orderById(rows \ { first })

\* A TEXT column that holds a string (NULL is JsNull).
Text(s) == [t |-> "string", n |-> 0, sub |-> << s >>]

\* A row of extracted_activities.
Row(id, source_id, day, start_time, end_time, activity_name, notes) ==
    [id |-> id, source_id |-> source_id, day |-> day, start_time |-> start_time,
     end_time |-> end_time, activity_name |-> activity_name, notes |-> notes]

\* SELECT id, day, activity_name, start_time, end_time, notes
columns(row) ==
    [id |-> row.id, day |-> row.day, activity_name |-> row.activity_name,
     start_time |-> row.start_time, end_time |-> row.end_time,
     notes |-> row.notes]

\* The activities query without its WHERE clause.
selectAllActivities(acts, id) ==
    LET rows == orderById(acts)
    IN  [i \in DOMAIN rows |-> columns(rows[i])]

\* db.prepare(`SELECT ... WHERE source_id = ? ORDER BY id`).all(sourceId)
selectActivities(acts, id) ==
    LET rows == orderById({ a \in acts : a.source_id = id })
    IN  [i \in DOMAIN rows |-> columns(rows[i])]

\* !value
falsy(v) == v.t \in { "undefined", "null" } \/ (v.t = "number" /\ v.n = 0)

\* result.timetable_source_id of a value that is neither null nor undefined
member(v) == IF v.t = "object" /\ v.sub # << >> THEN v.sub[1] ELSE JsUndefined

(***************************************************************************)
(* The "close" listener: what it passes to sendResponse (send, empty when  *)
(* it throws instead), the source id it read, whether an exception escaped *)
(* it, and whether it opened the database.                                 *)
(***************************************************************************)
Outcome(send, sid, threw, opened) ==
    [send |-> send, sid |-> sid, threw |-> threw, opened |-> opened]

\* The try block around the two queries without its `if (!source)` branch.
readDatabaseAnySource(sid, srcs, acts, dbFails) ==
    IF dbFails \/ sid.t = "object"
    THEN Outcome(<< ErrorBody(500, "Failed to read from database", JsUndefined,
                              << "dbError" >>, Absent) >>, sid, FALSE, TRUE)
    ELSE Outcome(<< SuccessBody(sid.n, selectActivities(acts, sid.n)) >>,
                 sid, FALSE, TRUE)

\* From "Read from database" on: the try block around the two queries.
readDatabase(sid, srcs, acts, dbFails) ==
    IF dbFails \/ sid.t = "object"
    THEN Outcome(<< ErrorBody(500, "Failed to read from database", JsUndefined,
                              << "dbError" >>, Absent) >>, sid, FALSE, TRUE)
    ELSE IF ~(sid.t = "number" /\ sid.n \in srcs)
    THEN Outcome(<< ErrorBody(404, "Timetable source not found in database",
                              JsUndefined, Absent, Absent) >>, sid, FALSE, TRUE)
    ELSE Outcome(<< SuccessBody(sid.n, selectActivities(acts, sid.n)) >>,
                 sid, FALSE, TRUE)

\* From "const sourceId = result.timetable_source_id" on.
useResult(result, srcs, acts, dbFails) ==
    IF result.t \in { "null", "undefined" }
    THEN Outcome(<< >>, JsUndefined, TRUE, FALSE)    \* TypeError, not caught
    ELSE IF falsy(member(result))
    THEN Outcome(<< ErrorBody(500, "No timetable_source_id in processor output",
                              JsUndefined, Absent, Absent) >>,
                 member(result), FALSE, FALSE)
    ELSE readDatabase(member(result), srcs, acts, dbFails)

\* The test `code !== 0` written with a truthiness test instead.
codeIsZeroLoose(code) == code.t = "null" \/ (code.t = "number" /\ code.n = 0)

\* Negation of `code !== 0`.
codeIsZero(code) == code.t = "number" /\ code.n = 0

\* The "Processor failed" body with stdout in place of stderr.
processorFailedStdout(code, out, err) ==
    ErrorBody(500, "Processor failed", code, out, Absent)

\* { error: "Processor failed", code, details: stderr }
processorFailed(code, out, err) ==
    ErrorBody(500, "Processor failed", code, err, Absent)

closeListener(code, out, err, srcs, acts, dbFails) ==
    IF ~codeIsZero(code)
    THEN Outcome(<< processorFailed(code, out, err) >>, JsUndefined, FALSE, FALSE)
    ELSE LET text == trim(out)
             last == JSONparse(lastLine(split(text)))
             match == jsonRegexExec(text)
             again == JSONparse(match.text)
         IN  IF last.ok THEN useResult(last.v, srcs, acts, dbFails)
             ELSE IF ~match.found
             THEN Outcome(<< ErrorBody(500, "No valid JSON output from processor",
                                       JsUndefined, Absent, out) >>,
                          JsUndefined, FALSE, FALSE)
             ELSE IF ~again.ok
             THEN Outcome(<< ErrorBody(500, "Invalid JSON from processor",
                                       JsUndefined, Absent, out) >>,
                          JsUndefined, FALSE, FALSE)
             ELSE useResult(again.v, srcs, acts, dbFails)

(***************************************************************************)
(* CalendarView.  Strings are sequences of characters.                     *)
(***************************************************************************)
UpperCase ==
    << "A", "B", "C", "D", "E", "F", "G", "H", "I", "J", "K", "L", "M",
       "N", "O", "P", "Q", "R", "S", "T", "U", "V", "W", "X", "Y", "Z" >>
LowerCase ==
    << "a", "b", "c", "d", "e", "f", "g", "h", "i", "j", "k", "l", "m",
       "n", "o", "p", "q", "r", "s", "t", "u", "v", "w", "x", "y", "z" >>

\* The lower-case letter of every upper-case letter.
lowerOf ==
    [c \in { UpperCase[k] : k \in DOMAIN UpperCase } |->
        LowerCase[CHOOSE k \in DOMAIN UpperCase : UpperCase[k] = c]]

\* String.prototype.toLowerCase
toLowerCase(s) ==
    [i \in DOMAIN s |-> IF s[i] \in DOMAIN lowerOf THEN lowerOf[s[i]] ELSE s[i]]

\* JavaScript numbers, as far as the projector needs them: an integer or NaN.
NaN == [nan |-> TRUE, v |-> 0]
Num(k) == [nan |-> FALSE, v |-> k]
jsAdd(a, b) == IF a.nan \/ b.nan THEN NaN ELSE Num(a.v + b.v)
jsMul(a, b) == IF a.nan \/ b.nan THEN NaN ELSE Num(a.v * b.v)
jsLess(a, b) == ~a.nan /\ ~b.nan /\ a.v < b.v
jsGreater(a, b) == ~a.nan /\ ~b.nan /\ a.v > b.v

\* Number(text) for a text of digits and other characters: the empty string
\* is 0, a run of digits its decimal value, anything else NaN.
Number(s) ==
    IF \A i \in DOMAIN s : s[i] \in Digits
    THEN Num(digitsValue(s, 1, Len(s)))
    ELSE NaN

\* String.prototype.split(':')
RECURSIVE splitColon(_)
splitColon(s) ==
    IF \E i \in 1..Len(s) : s[i] = ":"
    THEN LET i == CHOOSE k \in 1..Len(s) :
                      s[k] = ":" /\ \A m \in 1..(k - 1) : s[m] # ":"
         IN  << SubSeq(s, 1, i - 1) >> \o splitColon(SubSeq(s, i + 1, Len(s)))
    ELSE << s >>

\* `${n}` for a number n >= 0
RECURSIVE toString(_)
toString(n) ==
    IF n < 10 THEN << DigitChars[n + 1] >>
    ELSE toString(n \div 10) \o << DigitChars[(n % 10) + 1] >>

dayStartHour == 8
dayEndHour == 16

RECURSIVE timeslotsFrom(_)
timeslotsFrom(hour) ==
    IF hour < dayEndHour
    THEN << toString(hour) \o << ":", "0", "0" >>,
            toString(hour) \o << ":", "3", "0" >> >> \o timeslotsFrom(hour + 1)
    ELSE << >>

generateTimeslots == timeslotsFrom(dayStartHour)

\* const [hours, minutes] = time.split(':').map(Number); hours * 60 + minutes
\* (a missing minutes part is undefined, and the sum NaN)
timeToMinutes(time) ==
    LET parts == splitColon(time)
        hours == Number(parts[1])
        minutes == IF Len(parts) >= 2 THEN Number(parts[2]) ELSE NaN
    IN  jsAdd(jsMul(hours, Num(60)), minutes)

jsLessEq(a, b) == ~a.nan /\ ~b.nan /\ a.v <= b.v
jsGreaterEq(a, b) == ~a.nan /\ ~b.nan /\ a.v >= b.v

\* The day test of getActivitiesForSlot without toLowerCase.
sameDayExact(activityDay, day) == activityDay = day

\* !(activity.day.toLowerCase() !== day.toLowerCase())
sameDay(activityDay, day) == toLowerCase(activityDay) = toLowerCase(day)

\* The overlap test of getActivitiesForSlot with <= and >= for < and >.
overlapsInclusive(actStartMins, actEndMins, slotStartMins, slotEndMins) ==
    jsLessEq(actStartMins, slotEndMins) /\ jsGreaterEq(actEndMins, slotStartMins)

\* A test that places an activity in the slot that holds its start only.
startsInSlot(actStartMins, actEndMins, slotStartMins, slotEndMins) ==
    jsLessEq(slotStartMins, actStartMins) /\ jsLess(actStartMins, slotEndMins)

\* actStartMins < slotEndMins && actEndMins > slotStartMins
overlaps(actStartMins, actEndMins, slotStartMins, slotEndMins) ==
    jsLess(actStartMins, slotEndMins) /\ jsGreater(actEndMins, slotStartMins)

\* getActivitiesForSlot for a cell that holds one record at most: the first
\* record that matches takes the cell.
getActivitiesForSlotFirst(day, slotStart, slotEnd, acts) ==
    LET slotStartMins == timeToMinutes(slotStart)
        slotEndMins == timeToMinutes(slotEnd)
        keep(activity) ==
            IF ~sameDay(activity.day, day) THEN FALSE
            ELSE overlaps(timeToMinutes(activity.start_time),
                          timeToMinutes(activity.end_time),
                          slotStartMins, slotEndMins)
        kept == SelectSeq(acts, keep)
    IN  IF kept = << >> THEN << >> ELSE << kept[1] >>

getActivitiesForSlot(day, slotStart, slotEnd, acts) ==
    LET slotStartMins == timeToMinutes(slotStart)
        slotEndMins == timeToMinutes(slotEnd)
        keep(activity) ==
            IF ~sameDay(activity.day, day) THEN FALSE
            ELSE overlaps(timeToMinutes(activity.start_time),
                          timeToMinutes(activity.end_time),
                          slotStartMins, slotEndMins)
    IN  SelectSeq(acts, keep)

Sunday == << "S", "u", "n", "d", "a", "y" >>
Monday == << "M", "o", "n", "d", "a", "y" >>
Tuesday == << "T", "u", "e", "s", "d", "a", "y" >>
Wednesday == << "W", "e", "d", "n", "e", "s", "d", "a", "y" >>
Thursday == << "T", "h", "u", "r", "s", "d", "a", "y" >>
Friday == << "F", "r", "i", "d", "a", "y" >>
Saturday == << "S", "a", "t", "u", "r", "d", "a", "y" >>

\* const days = [...] of CalendarView
days == << Sunday, Monday, Tuesday, Wednesday, Thursday, Friday >>

timeslots == generateTimeslots

\* getNextTimeslot without the '16:00' of the last slot: the last slot ends
\* where it starts.
getNextTimeslotClamped(index) ==
    IF index + 2 <= Len(timeslots)
    THEN timeslots[index + 2]
    ELSE timeslots[Len(timeslots)]

\* timeslots[index + 1] || '16:00', index counted from 0
getNextTimeslot(index) ==
    IF index + 2 <= Len(timeslots)
    THEN timeslots[index + 2]
    ELSE << "1", "6", ":", "0", "0" >>

\* The cells of the table: (column of days, row of timeslots), from 1.
Cells == (1..Len(days)) \X (1..Len(timeslots))

\* A render that adds the slotActivities of every cell to what the cell
\* held after the render before it.
CalendarViewAccumulating(acts) ==
    [c \in Cells |->
        grid[c] \o getActivitiesForSlot(days[c[1]], timeslots[c[2]],
                                        getNextTimeslot(c[2] - 1), acts)]

\* The slotActivities of every cell of one render.
CalendarView(acts) ==
    [c \in Cells |->
        getActivitiesForSlot(days[c[1]], timeslots[c[2]],
                             getNextTimeslot(c[2] - 1), acts)]

EmptyGrid == [c \in Cells |-> << >>]

CalIdle ==
    /\ calActivities = << >>
    /\ grid = EmptyGrid
    /\ rendered = FALSE
    /\ rerendered = FALSE

(***************************************************************************)
(* The upload handler and the events of its child process.                 *)
(***************************************************************************)
\* validTypes of the UI's handleFileChange
validTypes ==
    { "image/jpeg", "image/jpg", "image/png", "application/pdf",
      "application/vnd.openxmlformats-officedocument.wordprocessingml.document" }

\* Content types a client may declare for the uploaded file.
UploadMimes == { "image/png", "text/plain" }

NoFile == [present |-> FALSE, mimetype |-> ""]
UploadedFile(m) == [present |-> TRUE, mimetype |-> m]

\* App before the user acts: the initial values of its useState hooks.
UiIdle ==
    /\ uiFile = NoFile
    /\ uploading = FALSE
    /\ response = << >>
    /\ uiError = << >>
    /\ awaiting = FALSE
    /\ reply = << >>
    /\ settled = << >>

\* The codes the "close" event may carry: an exit status, or null for a signal.
ExitCodes == { JsNumber(0), JsNumber(1), JsNull }
NotClosed == JsUndefined

\* The rows the database holds before any upload: source 1 with two
\* activities, the later one of the day stored first.
StoredRows ==
    { Row(1, 1, << "M", "o", "n", "d", "a", "y" >>,
          << "1", "0", ":", "0", "0" >>, << "1", "1", ":", "0", "0" >>,
          Text("Maths"), JsNull),
      Row(2, 1, << "M", "o", "n", "d", "a", "y" >>,
          << "9", ":", "0", "0" >>, << "9", ":", "3", "0" >>,
          Text("Art"), Text("hall")) }

\* A row the processor writes.
ExtractedRow(id, source_id) ==
    Row(id, source_id, << "T", "u", "e", "s", "d", "a", "y" >>,
        << "9", ":", "0", "0" >>, << "1", "0", ":", "0", "0" >>,
        Text("Music"), JsNull)

ApiInit ==
    /\ pc = [r \in Requests |-> "new"]
    /\ file = [r \in Requests |-> NoFile]
    /\ stdout = [r \in Requests |-> << >>]
    /\ stderr = [r \in Requests |-> << >>]
    /\ responseSent = [r \in Requests |-> FALSE]
    /\ responses = [r \in Requests |-> << >>]
    /\ errorEmitted = [r \in Requests |-> FALSE]
    /\ exitCode = [r \in Requests |-> NotClosed]
    /\ sourceId = [r \in Requests |-> JsUndefined]
    /\ uncaught = [r \in Requests |-> FALSE]
    /\ dbOpened = [r \in Requests |-> FALSE]
    /\ chunks = [r \in Requests |-> 0]
    /\ created = [r \in Requests |-> 0]
    /\ sources = { 1 }
    /\ activities = StoredRows

\* The uploads directory before any upload is saved.
SaveIdle ==
    /\ now = 0
    /\ saved = << >>
    /\ disk = << >>

Init == ApiInit /\ CalIdle /\ UiIdle /\ SaveIdle

\* The handler without its `if (!req.file)` return: the request goes on to
\* the spawn.
UploadNoFileSpawns(r) ==
    /\ pc[r] = "new"
    /\ pc' = [pc EXCEPT ![r] = "running"]
    /\ file' = [file EXCEPT ![r] = NoFile]
    /\ UNCHANGED << stdout, stderr, responseSent, responses, errorEmitted, exitCode,
                    sourceId, uncaught, dbOpened, chunks, created, sources,
                    activities >>
    /\ UNCHANGED << calVars, uiVars, saveVars >>

\* if (!req.file) return res.status(400).json({ error: "No file uploaded" })
UploadNoFile(r) ==
    /\ pc[r] = "new"
    /\ pc' = [pc EXCEPT ![r] = "done"]
    /\ file' = [file EXCEPT ![r] = NoFile]
    /\ responses' = [responses EXCEPT ![r] =
           Append(@, ErrorBody(400, "No file uploaded", JsUndefined, Absent, Absent))]
    /\ UNCHANGED << stdout, stderr, responseSent, errorEmitted, exitCode, sourceId,
                    uncaught, dbOpened, chunks, created, sources, activities >>
    /\ UNCHANGED << calVars, uiVars, saveVars >>

\* The handler that records the source itself before it spawns the processor.
UploadSpawnCreatesSource(r, m) ==
    /\ pc[r] = "new"
    /\ pc' = [pc EXCEPT ![r] = "running"]
    /\ file' = [file EXCEPT ![r] = UploadedFile(m)]
    /\ sources' = sources \cup { 1 + Cardinality(sources) }
    /\ UNCHANGED << stdout, stderr, responseSent, responses, errorEmitted, exitCode,
                    sourceId, uncaught, dbOpened, chunks, created, activities >>
    /\ UNCHANGED << calVars, uiVars, saveVars >>

\* The handler with a file: spawn succeeds and the listeners are registered.
UploadSpawn(r, m) ==
    /\ pc[r] = "new"
    /\ pc' = [pc EXCEPT ![r] = "running"]
    /\ file' = [file EXCEPT ![r] = UploadedFile(m)]
    /\ UNCHANGED << stdout, stderr, responseSent, responses, errorEmitted, exitCode,
                    sourceId, uncaught, dbOpened, chunks, created, sources,
                    activities >>
    /\ UNCHANGED << calVars, uiVars, saveVars >>

\* The handler with a file: spawn throws, the catch block responds.
UploadSpawnThrows(r, m) ==
    /\ pc[r] = "new"
    /\ pc' = [pc EXCEPT ![r] = "done"]
    /\ file' = [file EXCEPT ![r] = UploadedFile(m)]
    /\ LET s == sendResponse(responseSent[r], responses[r],
                    ErrorBody(500, "Failed to run processor", JsUndefined,
                              << "err" >>, Absent))
       IN  /\ responseSent' = [responseSent EXCEPT ![r] = s.responseSent]
           /\ responses' = [responses EXCEPT ![r] = s.responses]
    /\ UNCHANGED << stdout, stderr, errorEmitted, exitCode, sourceId, uncaught,
                    dbOpened, chunks, created, sources, activities >>
    /\ UNCHANGED << calVars, uiVars, saveVars >>

\* A "data" listener with a deadline of its own: it answers 504 once the
\* child has written MaxChunks chunks without ending.
StdoutDataWithDeadline(r, chunk) ==
    /\ pc[r] = "running"
    /\ chunks[r] < MaxChunks
    /\ stdout' = [stdout EXCEPT ![r] = @ \o chunk]
    /\ chunks' = [chunks EXCEPT ![r] = @ + 1]
    /\ LET s == IF chunks[r] + 1 < MaxChunks
                THEN [responseSent |-> responseSent[r], responses |-> responses[r]]
                ELSE sendResponse(responseSent[r], responses[r],
                         ErrorBody(504, "Processor timed out", JsUndefined,
                                   Absent, Absent))
       IN  /\ responseSent' = [responseSent EXCEPT ![r] = s.responseSent]
           /\ responses' = [responses EXCEPT ![r] = s.responses]
    /\ UNCHANGED << pc, file, stderr, errorEmitted, exitCode, sourceId, uncaught,
                    dbOpened, created, sources, activities >>
    /\ UNCHANGED << calVars, uiVars, saveVars >>

\* A "data" listener that appends to one stdout shared by all invocations (a
\* variable of the module instead of one of the handler's closure).
StdoutDataShared(r, chunk) ==
    /\ pc[r] = "running"
    /\ chunks[r] < MaxChunks
    /\ stdout' = [q \in DOMAIN stdout |-> stdout[q] \o chunk]
    /\ chunks' = [chunks EXCEPT ![r] = @ + 1]
    /\ UNCHANGED << pc, file, stderr, responseSent, responses, errorEmitted,
                    exitCode, sourceId, uncaught, dbOpened, created, sources,
                    activities >>
    /\ UNCHANGED << calVars, uiVars, saveVars >>

\* child.stdout.on("data", (chunk) => (stdout += chunk.toString()))
StdoutData(r, chunk) ==
    /\ pc[r] = "running"
    /\ chunks[r] < MaxChunks
    /\ stdout' = [stdout EXCEPT ![r] = @ \o chunk]
    /\ chunks' = [chunks EXCEPT ![r] = @ + 1]
    /\ UNCHANGED << pc, file, stderr, responseSent, responses, errorEmitted,
                    exitCode, sourceId, uncaught, dbOpened, created, sources,
                    activities >>
    /\ UNCHANGED << calVars, uiVars, saveVars >>

\* child.stderr.on("data", (chunk) => (stderr += chunk.toString()))
StderrData(r, chunk) ==
    /\ pc[r] = "running"
    /\ Len(stderr[r]) < MaxStderrChunks
    /\ stderr' = [stderr EXCEPT ![r] = @ \o chunk]
    /\ UNCHANGED << pc, file, stdout, responseSent, responses, errorEmitted,
                    exitCode, sourceId, uncaught, dbOpened, chunks, created,
                    sources, activities >>
    /\ UNCHANGED << calVars, uiVars, saveVars >>

\* The processor run commits its source and the activities it extracted.
ProcessorWrite(r, n) ==
    /\ pc[r] = "running"
    /\ created[r] = 0
    /\ LET id == 1 + Cardinality(sources)
           first == 1 + Cardinality(activities)
       IN  /\ sources' = sources \cup { id }
           /\ activities' = activities \cup
                  { ExtractedRow(k, id) : k \in first..(first + n - 1) }
           /\ created' = [created EXCEPT ![r] = id]
    /\ UNCHANGED << pc, file, stdout, stderr, responseSent, responses,
                    errorEmitted, exitCode, sourceId, uncaught, dbOpened, chunks >>
    /\ UNCHANGED << calVars, uiVars, saveVars >>

\* child.on("error", ...)
ChildError(r) ==
    /\ pc[r] \in { "running", "closed" }
    /\ ~errorEmitted[r]
    /\ errorEmitted' = [errorEmitted EXCEPT ![r] = TRUE]
    /\ LET s == sendResponse(responseSent[r], responses[r],
                    ErrorBody(500, "Failed to start processor", JsUndefined,
                              << "err" >>, Absent))
       IN  /\ responseSent' = [responseSent EXCEPT ![r] = s.responseSent]
           /\ responses' = [responses EXCEPT ![r] = s.responses]
    /\ UNCHANGED << pc, file, stdout, stderr, exitCode, sourceId, uncaught,
                    dbOpened, chunks, created, sources, activities >>
    /\ UNCHANGED << calVars, uiVars, saveVars >>

\* child.on("close", (code) => ...)
ChildClose(r, code, dbFails) ==
    /\ pc[r] = "running"
    /\ pc' = [pc EXCEPT ![r] = "closed"]
    /\ exitCode' = [exitCode EXCEPT ![r] = code]
    /\ LET o == closeListener(code, stdout[r], stderr[r], sources, activities,
                              dbFails)
           s == IF o.send = << >>
                THEN [responseSent |-> responseSent[r], responses |-> responses[r]]
                ELSE sendResponse(responseSent[r], responses[r], o.send[1])
       IN  /\ sourceId' = [sourceId EXCEPT ![r] = o.sid]
           /\ uncaught' = [uncaught EXCEPT ![r] = o.threw]
           /\ dbOpened' = [dbOpened EXCEPT ![r] = o.opened]
           /\ responseSent' = [responseSent EXCEPT ![r] = s.responseSent]
           /\ responses' = [responses EXCEPT ![r] = s.responses]
    /\ UNCHANGED << file, stdout, stderr, errorEmitted, chunks, created, sources,
                    activities >>
    /\ UNCHANGED << calVars, uiVars, saveVars >>

Next ==
    \E r \in Requests :
        \/ UploadNoFile(r)
        \/ \E m \in UploadMimes : UploadSpawn(r, m)
        \/ \E m \in UploadMimes : UploadSpawnThrows(r, m)
        \/ \E chunk \in StdoutChunks : StdoutData(r, chunk)
        \/ \E chunk \in StderrChunks : StderrData(r, chunk)
        \/ \E n \in 0..MaxActs : ProcessorWrite(r, n)
        \/ ChildError(r)
        \/ \E code \in ExitCodes, dbFails \in BOOLEAN : ChildClose(r, code, dbFails)

Spec == Init /\ [][Next]_vars

(***************************************************************************)
(* The "close" listener as a function of the child's output: every text of *)
(* up to MaxPieces chunks, closed with every code.                         *)
(***************************************************************************)
MaxPieces == 4

RECURSIVE Texts(_)
Texts(k) ==
    IF k = 0 THEN { [text |-> << >>, n |-> 0] }
    ELSE LET shorter == Texts(k - 1)
         IN  shorter \cup
             { [text |-> t.text \o c, n |-> t.n + 1] : t \in shorter, c \in StdoutChunks }

InitClose ==
    /\ \E t \in Texts(MaxPieces) :
           /\ stdout = [r \in Requests |-> t.text]
           /\ chunks = [r \in Requests |-> t.n]
    /\ pc = [r \in Requests |-> "running"]
    /\ file = [r \in Requests |-> UploadedFile("image/png")]
    /\ stderr = [r \in Requests |-> << "Traceback" >>]
    /\ responseSent = [r \in Requests |-> FALSE]
    /\ responses = [r \in Requests |-> << >>]
    /\ errorEmitted = [r \in Requests |-> FALSE]
    /\ exitCode = [r \in Requests |-> NotClosed]
    /\ sourceId = [r \in Requests |-> JsUndefined]
    /\ uncaught = [r \in Requests |-> FALSE]
    /\ dbOpened = [r \in Requests |-> FALSE]
    /\ created = [r \in Requests |-> 0]
    /\ sources = { 1 }
    /\ activities = StoredRows
    /\ CalIdle
    /\ SaveIdle
    /\ UiIdle

NextClose ==
    \E r \in Requests :
        \E code \in ExitCodes, dbFails \in BOOLEAN : ChildClose(r, code, dbFails)

SpecClose == InitClose /\ [][NextClose]_vars

(***************************************************************************)
(* The App component in front of the upload handler: the user picks a file *)
(* and uploads it; the fetch of handleUpload is served by the handler for  *)
(* one request.                                                            *)
(***************************************************************************)
\* What the processor of an upload made through the UI may print.
UiChunks == { Payload("1"), Payload("2"), << "null" >>, << "x" >> }

\* The message handleFileChange sets for a type that is not in validTypes.
InvalidFileType ==
    "Invalid file type. Please select .JPG, .JPEG, .PNG, .PDF, or .DOCX file."

\* The files the user can pick in the file dialog (which may also be closed
\* without a file: NoFile).
SelectableTypes == { "image/png", "application/pdf", "text/plain" }
Selections == { NoFile } \cup { UploadedFile(type) : type \in SelectableTypes }

PleaseSelect == "Please select a file first."

\* handleFileChange without its test of the file's type.
handleFileChangeAnyType(selectedFile) ==
    /\ ~uploading
    /\ IF selectedFile.present
       THEN uiFile' = selectedFile /\ uiError' = << >>
       ELSE UNCHANGED << uiFile, uiError >>
    /\ UNCHANGED << uploading, response, awaiting, reply, settled, apiVars, calVars, saveVars >>

\* handleFileChange with e.target.files?.[0]; the input is disabled while
\* uploading.
handleFileChange(selectedFile) ==
    /\ ~uploading
    /\ IF selectedFile.present
       THEN IF selectedFile.mimetype \in validTypes
            THEN uiFile' = selectedFile /\ uiError' = << >>
            ELSE /\ uiFile' = NoFile
                 /\ uiError' = << InvalidFileType >>
       ELSE UNCHANGED << uiFile, uiError >>
    /\ UNCHANGED << uploading, response, awaiting, reply, settled, apiVars, calVars, saveVars >>

\* handleUpload without a file: `if (!file) { setError(...); return }`.
handleUploadNoFile ==
    /\ ~uiFile.present
    /\ uiError' = << PleaseSelect >>
    /\ UNCHANGED << uiFile, uploading, response, awaiting, reply, settled,
                    apiVars, calVars, saveVars >>

\* handleUpload that starts the upload without setError(null) and
\* setResponse(null).
handleUploadKeepsResult(r) ==
    /\ uiFile.present
    /\ ~uploading
    /\ pc[r] = "new"
    /\ uploading' = TRUE
    /\ awaiting' = TRUE
    /\ UNCHANGED << uiFile, response, uiError, reply, settled, apiVars, calVars, saveVars >>

\* handleUpload up to its `await fetch(...)`; the button is disabled while
\* there is no file or while uploading.
handleUpload(r) ==
    /\ uiFile.present
    /\ ~uploading
    /\ pc[r] = "new"
    /\ uploading' = TRUE
    /\ uiError' = << >>
    /\ response' = << >>
    /\ awaiting' = TRUE
    /\ UNCHANGED << uiFile, reply, settled, apiVars, calVars, saveVars >>

\* a.x ?? fallback
nullish(v, fallback) == IF v.t \in { "null", "undefined" } THEN fallback ELSE v

\* a[name] of an object: undefined when the object has no such member.
get(a, name) == IF name \in DOMAIN a THEN a[name] ELSE JsUndefined

\* The element that keeps a.activity_name as it is.
normalizeActivityNoFallback(a) ==
    [id |-> a.id, day |-> a.day, start_time |-> a.start_time,
     end_time |-> a.end_time, notes |-> nullish(get(a, "notes"), JsNull),
     activity_name |-> get(a, "activity_name")]

\* The element data.activities.map(...) makes of an activity.
normalizeActivity(a) ==
    [id |-> a.id, day |-> a.day, start_time |-> a.start_time,
     end_time |-> a.end_time, notes |-> nullish(get(a, "notes"), JsNull),
     activity_name |-> nullish(get(a, "activity_name"),
                               nullish(get(a, "activity"), Text("")))]

\* data after `data.activities = data.activities.map(...)`
normalizeData(data) ==
    [data EXCEPT !.activities =
        [i \in DOMAIN data.activities |-> normalizeActivity(data.activities[i])]]

\* errorData.error || 'Upload failed'
errorMessage(errorData) ==
    IF errorData.error = "" THEN "Upload failed" ELSE errorData.error

\* How a fetch settles: resolved with a JSON body, resolved with a body that
\* is not JSON, or rejected.
Settled(kind, status, res) == [kind |-> kind, status |-> status, res |-> res]

\* The fetch resolves with the response of the handler.
fetchResolves(r) ==
    /\ awaiting
    /\ settled = << >>
    /\ responses[r] # << >>
    /\ settled' = << Settled("json", responses[r][1].status, << responses[r][1] >>) >>
    /\ UNCHANGED << uiFile, uploading, response, uiError, awaiting, reply,
                    apiVars, calVars, saveVars >>

\* The fetch resolves with a response that did not come from the handler and
\* whose body is not JSON: the error page Express makes when multer fails
\* (a file over the size limit), or the page of another server.
fetchResolvesNotJson(r, status) ==
    /\ awaiting
    /\ settled = << >>
    /\ pc[r] = "new"
    /\ settled' = << Settled("text", status, << >>) >>
    /\ UNCHANGED << uiFile, uploading, response, uiError, awaiting, reply,
                    apiVars, calVars, saveVars >>

\* The fetch rejects (the connection fails).
fetchRejects ==
    /\ awaiting
    /\ settled = << >>
    /\ settled' = << Settled("rejected", 0, << >>) >>
    /\ UNCHANGED << uiFile, uploading, response, uiError, awaiting, reply,
                    apiVars, calVars, saveVars >>

\* The statuses of the replies that are not JSON.
NotJsonStatuses == { 200, 500 }

\* The rest of handleUpload that leaves `uploading` as it is on the paths
\* through catch: setUploading(false) at the end of the try block only.
handleUploadResumesNoFinally ==
    /\ awaiting
    /\ settled # << >>
    /\ LET s == settled[1]
           ok == s.status >= 200 /\ s.status <= 299
       IN  IF s.kind = "json" /\ ok
           THEN /\ response' = << normalizeData(s.res[1]) >>
                /\ uiError' = uiError
                /\ uploading' = FALSE
           ELSE /\ response' = response
                /\ uiError' = << IF s.kind = "json" THEN errorMessage(s.res[1])
                                 ELSE IF s.kind = "text"
                                 THEN "Unexpected token < in JSON at position 0"
                                 ELSE "Failed to fetch" >>
                /\ uploading' = uploading
    /\ reply' = settled[1].res
    /\ awaiting' = FALSE
    /\ settled' = << >>
    /\ UNCHANGED << uiFile, apiVars, calVars, saveVars >>

\* handleUpload from the point its fetch has settled: the rest of the try
\* block, or the catch block, and the finally block.
handleUploadResumes ==
    /\ awaiting
    /\ settled # << >>
    /\ LET s == settled[1]
           ok == s.status >= 200 /\ s.status <= 299
       IN  IF s.kind = "json" /\ ok
           THEN response' = << normalizeData(s.res[1]) >> /\ uiError' = uiError
           ELSE /\ response' = response
                /\ uiError' = << IF s.kind = "json" THEN errorMessage(s.res[1])
                                 ELSE IF s.kind = "text"
                                 THEN "Unexpected token < in JSON at position 0"
                                 ELSE "Failed to fetch" >>
    /\ reply' = settled[1].res
    /\ uploading' = FALSE
    /\ awaiting' = FALSE
    /\ settled' = << >>
    /\ UNCHANGED << uiFile, apiVars, calVars, saveVars >>

\* What App shows when an upload starts: nothing, or the result or the error
\* of the upload before it (source 1 of the database).
EarlierUploads ==
    { [uiFile |-> NoFile, response |-> << >>, uiError |-> << >>],
      [uiFile |-> UploadedFile("image/png"),
       response |-> << normalizeData(SuccessBody(1, selectActivities(StoredRows, 1))) >>,
       uiError |-> << >>],
      [uiFile |-> UploadedFile("image/png"), response |-> << >>,
       uiError |-> << "Processor failed" >>] }

InitUI ==
    /\ ApiInit
    /\ CalIdle
    /\ SaveIdle
    /\ \E e \in EarlierUploads :
           /\ uiFile = e.uiFile
           /\ response = e.response
           /\ uiError = e.uiError
    /\ uploading = FALSE
    /\ awaiting = FALSE
    /\ reply = << >>
    /\ settled = << >>

\* The request of the fetch reaches the handler with the file of the form.
NextUI ==
    \/ \E selectedFile \in Selections : handleFileChange(selectedFile)
    \/ handleUploadNoFile
    \/ \E r \in Requests :
           \/ handleUpload(r)
           \/ awaiting /\ settled = << >> /\ UploadSpawn(r, uiFile.mimetype)
           \/ awaiting /\ settled = << >> /\ UploadSpawnThrows(r, uiFile.mimetype)
           \/ \E chunk \in UiChunks : StdoutData(r, chunk)
           \/ \E n \in 0..MaxActs : ProcessorWrite(r, n)
           \/ ChildError(r)
           \/ \E code \in ExitCodes, dbFails \in BOOLEAN : ChildClose(r, code, dbFails)
           \/ fetchResolves(r)
           \/ \E status \in NotJsonStatuses : fetchResolvesNotJson(r, status)
    \/ fetchRejects
    \/ handleUploadResumes

SpecUI == InitUI /\ [][NextUI]_vars

\* The event loop runs the continuation of handleUpload once its fetch has
\* settled.
SpecUILive == SpecUI /\ WF_vars(handleUploadResumes)

(***************************************************************************)
(* The normalization of a successful reply, over the shapes of activity    *)
(* objects: the rows of the handler (activity_name, notes), the rows of    *)
(* the earlier handler (no activity_name) and rows with the legacy member  *)
(* `activity`; a member is a string, null or missing.                      *)
(***************************************************************************)
MaxReplyActs == 2

Member(name, v) == IF v = JsUndefined THEN << >> ELSE [x \in { name } |-> v]

ActivityShapes ==
    { [id |-> 1, day |-> Text(Monday), start_time |-> Text("10:00"),
       end_time |-> Text("11:00")]
        @@ Member("activity_name", n) @@ Member("activity", l) @@ Member("notes", o) :
      n \in { JsUndefined, JsNull, Text("Maths"), Text("") },
      l \in { JsUndefined, JsNull, Text("Art") },
      o \in { JsUndefined, JsNull, Text("hall") } }

ReplyActivities ==
    UNION { [1..k -> ActivityShapes] : k \in 0..MaxReplyActs }

\* handleUpload suspended at its fetch, which has resolved with a 200.
InitNormalize ==
    /\ ApiInit
    /\ CalIdle
    /\ SaveIdle
    /\ uiFile = UploadedFile("image/png")
    /\ uploading = TRUE
    /\ awaiting = TRUE
    /\ response = << >>
    /\ uiError = << >>
    /\ reply = << >>
    /\ \E acts \in ReplyActivities :
           settled = << Settled("json", 200, << SuccessBody(1, acts) >>) >>

NextNormalize == handleUploadResumes

SpecNormalize == InitNormalize /\ [][NextNormalize]_vars

(***************************************************************************)
(* Two uploads at once: two invocations of the handler, each with its own  *)
(* child, over one database.  A processor run prints the id of the source  *)
(* it committed, between other lines.                                      *)
(***************************************************************************)
ConcurrentRequests == { "r1", "r2" }

\* What the processor of invocation r may print: a line of text and the
\* payload of the source it has committed.
ProcessorChunks(r) ==
    { << "x" >> } \cup
        IF created[r] = 0 THEN {} ELSE { Payload(DigitChars[created[r] + 1]) }

InitConc ==
    /\ pc = [r \in ConcurrentRequests |-> "new"]
    /\ file = [r \in ConcurrentRequests |-> NoFile]
    /\ stdout = [r \in ConcurrentRequests |-> << >>]
    /\ stderr = [r \in ConcurrentRequests |-> << >>]
    /\ responseSent = [r \in ConcurrentRequests |-> FALSE]
    /\ responses = [r \in ConcurrentRequests |-> << >>]
    /\ errorEmitted = [r \in ConcurrentRequests |-> FALSE]
    /\ exitCode = [r \in ConcurrentRequests |-> NotClosed]
    /\ sourceId = [r \in ConcurrentRequests |-> JsUndefined]
    /\ uncaught = [r \in ConcurrentRequests |-> FALSE]
    /\ dbOpened = [r \in ConcurrentRequests |-> FALSE]
    /\ chunks = [r \in ConcurrentRequests |-> 0]
    /\ created = [r \in ConcurrentRequests |-> 0]
    /\ sources = { 1 }
    /\ activities = StoredRows
    /\ CalIdle
    /\ SaveIdle
    /\ UiIdle

NextConc ==
    \E r \in ConcurrentRequests :
        \/ UploadSpawn(r, "image/png")
        \/ \E chunk \in ProcessorChunks(r) : StdoutData(r, chunk)
        \/ \E chunk \in StderrChunks : StderrData(r, chunk)
        \/ ProcessorWrite(r, MaxActs)
        \/ \E code \in { JsNumber(0), JsNumber(1) } : ChildClose(r, code, FALSE)

SpecConc == InitConc /\ [][NextConc]_vars

(***************************************************************************)
(* The multer disk storage in front of the handler: each upload is saved   *)
(* under the name the `filename` callback makes, and the handler passes    *)
(* that path to the processor it spawns.                                   *)
(***************************************************************************)
MaxNow == 1

Letters ==
    { "a", "b", "c", "d", "e", "f", "g", "h", "i", "j", "k", "l", "m", "n",
      "o", "p", "q", "r", "s", "t", "u", "v", "w", "x", "y", "z",
      "A", "B", "C", "D", "E", "F", "G", "H", "I", "J", "K", "L", "M", "N",
      "O", "P", "Q", "R", "S", "T", "U", "V", "W", "X", "Y", "Z" }

\* [a-zA-Z0-9.\-_%]
SafeChars == Letters \cup Digits \cup { ".", "-", "_", "%" }

\* originalname.replace(/[^a-zA-Z0-9.\-_%]/g, "_")
safe(originalname) ==
    [i \in DOMAIN originalname |->
        IF originalname[i] \in SafeChars THEN originalname[i] ELSE "_"]

\* The decimal digits of a number, as a template literal prints it.
RECURSIVE decimal(_)
decimal(n) ==
    IF n < 10 THEN << DigitChars[n + 1] >>
    ELSE decimal(n \div 10) \o << DigitChars[(n % 10) + 1] >>

\* `${Date.now()}-${...}`
safeName(ms, originalname) == decimal(ms) \o << "-" >> \o safe(originalname)

\* The original names of the uploaded files.
OriginalNames ==
    { << "t", " ", "1", ".", "p", "n", "g" >>,
      << "t", "_", "1", ".", "p", "n", "g" >>,
      << "t", "2", ".", "p", "n", "g" >> }

\* A file two uploads wrote at the same time holds parts of both.
Mixed == "mixed"

\* A millisecond passes.
Tick ==
    /\ now < MaxNow
    /\ now' = now + 1
    /\ UNCHANGED << saved, disk, apiVars, calVars, uiVars >>

\* multer saves the file of request r under the name the filename callback
\* returns; a file of that name is written over.
SaveFile(r, originalname) ==
    /\ r \notin DOMAIN saved
    /\ pc[r] = "new"
    /\ LET name == safeName(now, originalname)
       IN  /\ saved' = [q \in DOMAIN saved \cup { r } |->
                            IF q = r THEN name ELSE saved[q]]
           /\ \E holder \in { r } \cup (IF name \in DOMAIN disk THEN { Mixed } ELSE {}) :
                  disk' = [f \in DOMAIN disk \cup { name } |->
                              IF f = name THEN holder ELSE disk[f]]
    /\ UNCHANGED << now, apiVars, calVars, uiVars >>

NextSave ==
    \/ Tick
    \/ \E r \in ConcurrentRequests :
           \/ \E originalname \in OriginalNames : SaveFile(r, originalname)
           \/ r \in DOMAIN saved /\ UploadSpawn(r, "image/png")

SpecSave == InitConc /\ [][NextSave]_vars

(***************************************************************************)
(* Vocabulary of the properties of the upload handler.                     *)
(***************************************************************************)
Closed(r) == pc[r] = "closed"
ClosedWithZero(r) == Closed(r) /\ exitCode[r] = JsNumber(0)

\* The spans of a text that have the shape of a payload: an object without
\* inner braces that holds the source id key.
Fragments(text) ==
    { f \in (1..Len(text)) \X (1..Len(text)) :
          /\ f[1] < f[2]
          /\ text[f[1]] = "{"
          /\ text[f[2]] = "}"
          /\ \A k \in (f[1] + 1)..(f[2] - 1) : text[k] \notin Braces
          /\ \E k \in (f[1] + 1)..(f[2] - 1) : text[k] = KEY }

FragmentValue(text, f) == JSONparse(SubSeq(text, f[1], f[2]))

\* A fragment that is a JSON object carrying a source id.
IsPayload(text, f) ==
    /\ FragmentValue(text, f).ok
    /\ ~falsy(member(FragmentValue(text, f).v))

FragmentId(text, f) == member(FragmentValue(text, f).v)

LineOf(text, i) == 1 + Cardinality({ k \in 1..(i - 1) : text[k] = NL })
LineCount(text) == Len(split(text))

ParseErrors ==
    { "No valid JSON output from processor", "Invalid JSON from processor" }

\* C1: every invocation of the upload handler makes at most one response,
\* whatever the order of the child's "error" and "close" events and also when
\* spawn throws.
C1_AtMostOneResponse == \A r \in Requests : Len(responses[r]) <= 1

\* C1 witness: the child emitted both "error" and "close" and one response
\* was made.
C1_Witness ==
    \E r \in Requests :
        Closed(r) /\ errorEmitted[r] /\ Len(responses[r]) = 1

\* C2: after exit status 0, when stdout holds exactly one payload-shaped
\* fragment and it is not on the last line, the listener reads that fragment's
\* source id, whatever the other lines hold.
C2_SingleFragmentRecovered ==
    \A r \in Requests :
        LET text == trim(stdout[r])
            frs == Fragments(text)
        IN  ( /\ ClosedWithZero(r)
              /\ Cardinality(frs) = 1
              /\ \A f \in frs : IsPayload(text, f)
                                /\ LineOf(text, f[1]) < LineCount(text) )
            => \A f \in frs : sourceId[r] = FragmentId(text, f)

\* C3: after exit status 0, when the last line does not parse and several
\* payloads lie on different lines, the listener reads the source id of the
\* last of them.
C3_LastFragmentSelected ==
    \A r \in Requests :
        LET text == trim(stdout[r])
            frs == Fragments(text)
        IN  ( /\ ClosedWithZero(r)
              /\ ~JSONparse(lastLine(split(text))).ok
              /\ Cardinality(frs) >= 2
              /\ \A f \in frs : IsPayload(text, f)
              /\ \A k \in 1..Len(text) :
                     text[k] = "{" => \E f \in frs : f[1] = k
              /\ \A f, g \in frs :
                     f # g => LineOf(text, f[1]) # LineOf(text, g[1]) )
            => \A f \in frs :
                   (\A g \in frs : g[1] <= f[1]) => sourceId[r] = FragmentId(text, f)

\* C4: after exit status 0, when the last line is not an object carrying a
\* source id and stdout holds no payload-shaped fragment, the listener makes
\* an error response and no exception escapes it.
C4_NoPayloadIsAnError ==
    \A r \in Requests :
        LET text == trim(stdout[r])
            last == JSONparse(lastLine(split(text)))
        IN  ( /\ ClosedWithZero(r)
              /\ ~errorEmitted[r]
              /\ Fragments(text) = {}
              /\ ~(last.ok /\ last.v.t = "object" /\ ~falsy(member(last.v))) )
            => /\ ~uncaught[r]
               /\ Len(responses[r]) = 1
               /\ responses[r][1].status >= 400

C6_SuccessOnlyAfterCleanExit ==
    \A r \in Requests :
        /\ \A i \in 1..Len(responses[r]) :
               responses[r][i].status = 200
                   => /\ ClosedWithZero(r)
                      /\ sourceId[r].t = "number"
                      /\ sourceId[r].n \in sources
                      /\ responses[r][i].timetable_source_id = sourceId[r].n
                      /\ \E a, b \in 1..Len(stdout[r]) :
                             LET v == JSONparse(SubSeq(stdout[r], a, b))
                             IN  v.ok /\ v.v.t = "object"
                                      /\ member(v.v) = sourceId[r]
        /\ (Closed(r) /\ exitCode[r] # JsNumber(0))
               => /\ Len(responses[r]) = 1
                  /\ responses[r][1].status = 500

\* C6 witness: the child printed a well-formed payload of a stored source and
\* then closed with a code other than 0.
C6_Witness ==
    \E r \in Requests :
        /\ Closed(r)
        /\ exitCode[r] = JsNull
        /\ stdout[r] = Payload("1")
        /\ 1 \in sources
        /\ Len(responses[r]) = 1
        /\ responses[r][1].status = 500

\* C7: a request whose file is declared with a content type outside the
\* allow-list never has a processor spawned for it.
C7_UnsupportedTypeNeverSpawned ==
    \A r \in Requests :
        (file[r].present /\ file[r].mimetype \notin validTypes)
            => pc[r] \notin { "running", "closed" }

(***************************************************************************)
(* The projector as a function of its input: every list of up to           *)
(* MaxRecords activities drawn from a menu of days and intervals.          *)
(***************************************************************************)
MaxRecords == 2

DayMenu ==
    { Monday,
      << "m", "O", "N", "d", "a", "y" >>,
      Saturday,
      << "F", "u", "n", "d", "a", "y" >> }

IntervalMenu ==
    { [start_time |-> << "9", ":", "0", "0" >>, end_time |-> << "1", "0", ":", "0", "0" >>],
      [start_time |-> << "9", ":", "0", "0" >>, end_time |-> << "9", ":", "3", "0" >>],
      [start_time |-> << "0", "9", ":", "1", "5" >>, end_time |-> << "1", "6", ":", "0", "0" >>],
      [start_time |-> << "n", "o", "o", "n" >>, end_time |-> << "9", ":", "3", "0" >>] }

InitCal ==
    /\ ApiInit
    /\ UiIdle
    /\ SaveIdle
    /\ \E n \in 0..MaxRecords :
           \E d \in [1..n -> DayMenu], t \in [1..n -> IntervalMenu] :
               calActivities =
                   [i \in 1..n |->
                       [id |-> i, day |-> d[i], start_time |-> t[i].start_time,
                        end_time |-> t[i].end_time]]
    /\ grid = EmptyGrid
    /\ rendered = FALSE
    /\ rerendered = FALSE

\* One render of CalendarView with the activities prop.
Render ==
    /\ ~rendered
    /\ grid' = CalendarView(calActivities)
    /\ rendered' = TRUE
    /\ UNCHANGED << calActivities, rerendered, apiVars, uiVars, saveVars >>

\* A second render of CalendarView with the same activities prop (React
\* calls the component again when its parent renders).
Rerender ==
    /\ rendered
    /\ ~rerendered
    /\ grid' = CalendarView(calActivities)
    /\ rerendered' = TRUE
    /\ UNCHANGED << calActivities, rendered, apiVars, uiVars, saveVars >>

NextCal == Render \/ Rerender

SpecCal == InitCal /\ [][NextCal]_vars

(***************************************************************************)
(* Vocabulary of the properties of the projector: what the day and time    *)
(* texts of the menu mean, and the slots of the display window.            *)
(***************************************************************************)
NoDay == << >>

DayMeaning ==
    { << Monday, Monday >>,
      << << "m", "O", "N", "d", "a", "y" >>, Monday >>,
      << Saturday, Saturday >>,
      << << "F", "u", "n", "d", "a", "y" >>, NoDay >> }

\* The canonical day a day text names, NoDay when it names none.
CanonicalOf(text) == (CHOOSE e \in DayMeaning : e[1] = text)[2]

CanonicalDays ==
    { Sunday, Monday, Tuesday, Wednesday, Thursday, Friday, Saturday }

TimeMeaning ==
    { << << "9", ":", "0", "0" >>, 540 >>,
      << << "9", ":", "3", "0" >>, 570 >>,
      << << "1", "0", ":", "0", "0" >>, 600 >>,
      << << "0", "9", ":", "1", "5" >>, 555 >>,
      << << "1", "6", ":", "0", "0" >>, 960 >> }

IsTime(text) == \E e \in TimeMeaning : e[1] = text
MinutesOf(text) == (CHOOSE e \in TimeMeaning : e[1] = text)[2]
WellFormed(R) == IsTime(R.start_time) /\ IsTime(R.end_time)

\* Slot i of the window 08:00-16:00, in minutes: [SlotStart(i), SlotEnd(i)).
SlotStart(i) == 8 * 60 + 30 * (i - 1)
SlotEnd(i) == SlotStart(i) + 30

OverlapsSlot(R, i) ==
    MinutesOf(R.start_time) < SlotEnd(i) /\ MinutesOf(R.end_time) > SlotStart(i)

InCell(R, c) == \E j \in DOMAIN grid[c] : grid[c][j] = R

Records == { calActivities[k] : k \in DOMAIN calActivities }

\* C8: a record is in the cell of day D and slot S exactly when its day is D
\* (as the projector matches days) and its interval overlaps the slot:
\* start < S.end and end > S.start; a record that only touches the slot at a
\* boundary is not in it.
C8_OverlapLaw ==
    rendered =>
        \A R \in Records, c \in Cells :
            WellFormed(R) =>
                ( InCell(R, c) <=>
                      /\ CanonicalOf(R.day) = days[c[1]]
                      /\ OverlapsSlot(R, c[2]) )

\* C8 witness: a rendered record that starts exactly where a slot of its
\* day ends is not in that slot, and is in the next one.
C8_Witness ==
    /\ rendered
    /\ \E R \in Records, c \in Cells :
           /\ WellFormed(R)
           /\ CanonicalOf(R.day) = days[c[1]]
           /\ MinutesOf(R.start_time) = SlotEnd(c[2])
           /\ ~InCell(R, c)
           /\ InCell(R, << c[1], c[2] + 1 >>)

\* C9: a record whose day is one of the seven days of the week and whose
\* interval overlaps a slot of the window is in that slot of the column of
\* its day.
C9_EveryCanonicalDayPlaced ==
    rendered =>
        \A R \in Records, i \in 1..Len(timeslots) :
            (R.day \in CanonicalDays /\ WellFormed(R) /\ OverlapsSlot(R, i))
                => \E d \in 1..Len(days) :
                       days[d] = R.day /\ InCell(R, << d, i >>)

\* C10: days are matched without regard to case, a record whose day names
\* no day of the week is in no cell, and every record whose day names the day
\* of a column is in each slot of that column that its interval overlaps.
C10_CaseInsensitiveDays ==
    rendered =>
        \A R \in Records, c \in Cells :
            /\ ( /\ CanonicalOf(R.day) = days[c[1]]
                 /\ WellFormed(R)
                 /\ OverlapsSlot(R, c[2]) ) => InCell(R, c)
            /\ CanonicalOf(R.day) = NoDay => ~InCell(R, c)
            /\ \A j \in DOMAIN grid[c] : grid[c][j] \in Records

\* C10 witness: the rendered list holds a record with day "mONday", which is
\* in a cell of the Monday column, next to a record whose day names no day.
C10_Witness ==
    /\ rendered
    /\ \E R \in Records, c \in Cells :
           /\ R.day = << "m", "O", "N", "d", "a", "y" >>
           /\ days[c[1]] = Monday
           /\ InCell(R, c)
    /\ \E R \in Records : CanonicalOf(R.day) = NoDay

\* C11: when several records overlap the same cell, all of them are in the
\* cell's list, each once, in the order they have in the activity list; a
\* cell that is occupied still takes every later record that overlaps it.
C11_CellKeepsAllInInputOrder ==
    rendered =>
        \A c \in Cells :
            /\ \A k \in DOMAIN calActivities :
                   ( /\ WellFormed(calActivities[k])
                     /\ CanonicalOf(calActivities[k].day) = days[c[1]]
                     /\ OverlapsSlot(calActivities[k], c[2]) )
                   => \E j \in DOMAIN grid[c] : grid[c][j] = calActivities[k]
            /\ \A j \in DOMAIN grid[c] :
                   /\ grid[c][j].id \in DOMAIN calActivities
                   /\ grid[c][j] = calActivities[grid[c][j].id]
            /\ \A i, j \in DOMAIN grid[c] :
                   i < j => grid[c][i].id < grid[c][j].id

\* C11 witness: two records of the list overlap one cell, and the cell lists
\* both, the earlier one first.
C11_Witness ==
    /\ rendered
    /\ \E c \in Cells :
           /\ Len(grid[c]) = 2
           /\ grid[c][1] = calActivities[1]
           /\ grid[c][2] = calActivities[2]
           /\ grid[c][1].start_time = grid[c][2].start_time
           /\ grid[c][1].end_time # grid[c][2].end_time

\* The bounds of the slots of the axis in minutes, as the projector computes
\* them: the start of slot i and the start of what getNextTimeslot gives.
SlotBounds ==
    [i \in 1..Len(timeslots) |->
        [from |-> timeToMinutes(timeslots[i]),
         to |-> timeToMinutes(getNextTimeslot(i - 1))]] @@ << >>

\* The slots of the axis that hold minute m of the day.
SlotsOfMinute(m) ==
    { i \in DOMAIN SlotBounds :
          SlotBounds[i].from.v <= m /\ m < SlotBounds[i].to.v }

\* Every minute of [08:00, 16:00) lies in exactly one slot, and no other
\* minute of the day lies in a slot.
SlotsPartitionWindow ==
    \A m \in 0..(24 * 60 - 1) :
        Cardinality(SlotsOfMinute(m)) =
            IF 8 * 60 <= m /\ m < 16 * 60 THEN 1 ELSE 0

\* C12: the slot axis is the list of the 16 slot starts 8:00, 8:30, ...,
\* 15:30 whatever the activity list holds; the end of a slot is the start of
\* the next one and the last slot ends at 16:00, so that the slots are 30
\* minutes wide and every minute of [08:00, 16:00), and no other minute, lies
\* in exactly one slot.
C12_SlotAxis ==
    /\ Len(timeslots) = 16
    /\ timeslots[1] = << "8", ":", "0", "0" >>
    /\ timeslots[2] = << "8", ":", "3", "0" >>
    /\ timeslots[16] = << "1", "5", ":", "3", "0" >>
    /\ \A i \in 1..Len(timeslots) :
           /\ SlotBounds[i].from = Num(8 * 60 + 30 * (i - 1))
           /\ SlotBounds[i].to = Num(SlotBounds[i].from.v + 30)
           /\ i < Len(timeslots) => SlotBounds[i].to = SlotBounds[i + 1].from
    /\ SlotBounds[Len(timeslots)].to = Num(16 * 60)
    /\ SlotsPartitionWindow
    /\ rendered => DOMAIN grid = (1..Len(days)) \X (1..16)

\* C12 witness: a rendered list whose record 09:15-16:00 is in the last slot
\* of the axis, the one that ends at 16:00.
C12_Witness ==
    /\ rendered
    /\ \E R \in Records :
           /\ R.end_time = << "1", "6", ":", "0", "0" >>
           /\ R.end_time = getNextTimeslot(Len(timeslots) - 1)
           /\ \E d \in 1..Len(days) : InCell(R, << d, Len(timeslots) >>)

\* What follows the last newline of a text (the whole text when it has none).
FinalLine(text) ==
    LET breaks == { k \in 1..Len(text) : text[k] = NL }
        from == IF breaks = {} THEN 1
                ELSE 1 + CHOOSE k \in breaks : \A m \in breaks : m <= k
    IN  SubSeq(text, from, Len(text))

\* The final line of the trimmed stdout is a JSON object carrying a source id.
FinalLineIsPayload(r) ==
    LET v == JSONparse(FinalLine(trim(stdout[r])))
    IN  v.ok /\ v.v.t = "object" /\ ~falsy(member(v.v))

FinalLineId(r) == member(JSONparse(FinalLine(trim(stdout[r]))).v)

\* C13: after exit status 0, when the last line of the trimmed stdout is a
\* JSON object carrying a source id, the listener reads that source id,
\* whatever the lines before it hold (other payloads included), and it
\* reports no parse failure.
C13_LastLinePayloadWins ==
    \A r \in Requests :
        (ClosedWithZero(r) /\ FinalLineIsPayload(r))
            => /\ sourceId[r] = FinalLineId(r)
               /\ ~uncaught[r]
               /\ Len(responses[r]) = 1
               /\ responses[r][1].error \notin ParseErrors

\* C13 witness: the last line is a payload, an earlier line holds a payload
\* with another source id, and the listener read the id of the last line.
C13_Witness ==
    \E r \in Requests :
        LET text == trim(stdout[r])
        IN  /\ ClosedWithZero(r)
            /\ FinalLineIsPayload(r)
            /\ sourceId[r] = FinalLineId(r)
            /\ \E f \in Fragments(text) :
                   /\ IsPayload(text, f)
                   /\ LineOf(text, f[1]) < LineCount(text)
                   /\ FragmentId(text, f) # FinalLineId(r)

\* The run of request r succeeded with zero records: its processor committed
\* a source without activities, reported it and exited with status 0, and
\* the handler read it from the database without a database error.
SucceededWithZeroRecords(r) ==
    /\ ClosedWithZero(r)
    /\ ~errorEmitted[r]
    /\ created[r] # 0
    /\ sourceId[r] = JsNumber(created[r])
    /\ ~\E a \in activities : a.source_id = created[r]
    /\ \A i \in 1..Len(responses[r]) :
           responses[r][i].error # "Failed to read from database"

\* The run of request r failed: the child ended with another status than 0,
\* or it ended without a source id on its result channel.
FailedRun(r) ==
    Closed(r) /\ (exitCode[r] # JsNumber(0) \/ falsy(sourceId[r]))

\* C14: a run that succeeds with zero records gets a success response with an
\* empty activities list; every failed run gets an error response, which has
\* no activities list; and once the fetch has resolved the UI holds the former
\* in response, with no upload error, and never holds the latter in response.
C14_ZeroRecordsIsSuccess ==
    \A r \in Requests :
        /\ SucceededWithZeroRecords(r)
               => responses[r] = << SuccessBody(created[r], << >>) >>
        /\ FailedRun(r)
               => /\ Len(responses[r]) = 1
                  /\ responses[r][1].status >= 400
                  /\ responses[r][1].activities = NoActivities
        /\ (reply # << >> /\ SucceededWithZeroRecords(r))
               => /\ response # << >>
                  /\ response[1].activities = << >>
                  /\ response[1].timetable_source_id = created[r]
                  /\ uiError \in { << >>, << InvalidFileType >>, << PleaseSelect >> }
        /\ (reply # << >> /\ FailedRun(r))
               => response = << >>

\* C15: the activities of a success response are the stored rows whose
\* source_id is the source id the listener read from the payload, each once,
\* in ascending order of their ids, whatever their times are; no row of
\* another source is among them.
C15_ActivitiesOfTheSourceById ==
    \A r \in Requests :
        \A i \in 1..Len(responses[r]) :
            LET body == responses[r][i]
                acts == body.activities
                stored == { a \in activities : a.source_id = body.timetable_source_id }
            IN  body.status = 200
                => /\ sourceId[r] = JsNumber(body.timetable_source_id)
                   /\ Len(acts) = Cardinality(stored)
                   /\ \A a \in stored : \E k \in 1..Len(acts) : acts[k] = columns(a)
                   /\ \A k \in 1..Len(acts) : \E a \in stored : acts[k] = columns(a)
                   /\ \A j, k \in 1..Len(acts) : j < k => acts[j].id < acts[k].id

\* C15 witness: a success response lists two rows of its source by id although
\* the first of them starts later in the day than the second, and the table
\* holds a row of another source.
C15_Witness ==
    \E r \in Requests :
        /\ Len(responses[r]) = 1
        /\ responses[r][1].status = 200
        /\ Len(responses[r][1].activities) = 2
        /\ timeToMinutes(responses[r][1].activities[1].start_time).v
               > timeToMinutes(responses[r][1].activities[2].start_time).v
        /\ \E a \in activities :
               a.source_id # responses[r][1].timetable_source_id

\* The listener of request r read from the payload a source id that has no
\* row in timetable_sources.
NamesMissingSource(r) ==
    /\ ClosedWithZero(r)
    /\ sourceId[r].t = "number"
    /\ ~falsy(sourceId[r])
    /\ sourceId[r].n \notin sources

\* C16: when the payload names a source id without a row in the sources
\* table, no response of the invocation is a success response or carries
\* activities, and the response is the 404 "not found" unless the child's
\* "error" event was answered first or the database could not be read.
C16_MissingSourceIsNotFound ==
    \A r \in Requests :
        NamesMissingSource(r)
            => /\ ~uncaught[r]
               /\ Len(responses[r]) = 1
               /\ responses[r][1].status # 200
               /\ responses[r][1].activities = NoActivities
               /\ responses[r][1].error \notin
                      { "Failed to start processor", "Failed to read from database" }
                      => responses[r][1] =
                             ErrorBody(404, "Timetable source not found in database",
                                       JsUndefined, Absent, Absent)

\* C16 witness: the payload named source 2, the table holds source 1 only,
\* and the response is the 404.
C16_Witness ==
    \E r \in Requests :
        /\ NamesMissingSource(r)
        /\ dbOpened[r]
        /\ Len(responses[r]) = 1
        /\ responses[r][1].status = 404

SlotOfMinute(m) == ((m - SlotStart(1)) \div 30) + 1

\* Record R has start < end and lies inside the display window.
InsideWindow(R) ==
    /\ WellFormed(R)
    /\ SlotStart(1) <= MinutesOf(R.start_time)
    /\ MinutesOf(R.start_time) < MinutesOf(R.end_time)
    /\ MinutesOf(R.end_time) <= SlotEnd(Len(timeslots))

\* C19: a record with start < end inside the display window is, in the column
\* of its day, in exactly the slots from the one that holds its start minute
\* to the one that holds its last minute, end - 1, with no gap: the record
\* 9:00-10:00 in the 9:00 and the 9:30 slot, the record 9:00-9:30 in the
\* 9:00 slot only.
C19_ContiguousRunOfSlots ==
    rendered =>
        \A R \in Records, d \in 1..Len(days) :
            (InsideWindow(R) /\ CanonicalOf(R.day) = days[d])
            => { i \in 1..Len(timeslots) : InCell(R, << d, i >>) }
                   = SlotOfMinute(MinutesOf(R.start_time))
                         .. SlotOfMinute(MinutesOf(R.end_time) - 1)

\* C19 witness: the rendered list holds a record 9:00-10:00 that is in the
\* 9:00 and 9:30 slots of its day and in no other, and a record 9:00-9:30 that
\* is in the 9:00 slot only.
C19_Witness ==
    /\ rendered
    /\ \E R, Q \in Records, d \in 1..Len(days) :
           /\ R.start_time = << "9", ":", "0", "0" >>
           /\ R.end_time = << "1", "0", ":", "0", "0" >>
           /\ Q.start_time = << "9", ":", "0", "0" >>
           /\ Q.end_time = << "9", ":", "3", "0" >>
           /\ { i \in 1..Len(timeslots) : InCell(R, << d, i >>) } = { 3, 4 }
           /\ { i \in 1..Len(timeslots) : InCell(Q, << d, i >>) } = { 3 }
           /\ timeslots[3] = << "9", ":", "0", "0" >>
           /\ timeslots[4] = << "9", ":", "3", "0" >>

\* C18: the handler has no deadline of its own: as long as the child of an
\* invocation has emitted neither "close" nor "error", the invocation has no
\* response, however much the child has written and whatever it has stored;
\* and an invocation that is not yet handled has none either.
C18_NoResponseBeforeChildEnds ==
    \A r \in Requests :
        /\ (pc[r] = "running" /\ ~errorEmitted[r])
               => responses[r] = << >> /\ ~responseSent[r]
        /\ pc[r] = "new" => responses[r] = << >>
        /\ responses[r] # << >>
               => \/ Closed(r)
                  \/ errorEmitted[r]
                  \/ pc[r] = "done"

\* C18 witness: the child has written all it will write, a whole payload
\* among it, and has committed its source, but has not ended: the invocation
\* is unanswered.
C18_Witness ==
    \E r \in Requests :
        /\ pc[r] = "running"
        /\ ~errorEmitted[r]
        /\ chunks[r] = MaxChunks
        /\ created[r] # 0
        /\ \E f \in Fragments(stdout[r]) : IsPayload(stdout[r], f)
        /\ responses[r] = << >>

\* C20: under every interleaving of two uploads, a response of an invocation
\* carries the exit code, stderr and stdout of that invocation's own child;
\* the database is opened for an invocation only after its child has closed
\* with status 0; and a success response reports the source that this child
\* committed, with rows of that source only, so that the run that wrote the
\* reported source has ended.
C20_ResponsesAreIsolated ==
    \A r \in ConcurrentRequests :
        /\ dbOpened[r] => ClosedWithZero(r)
        /\ \A i \in 1..Len(responses[r]) :
               LET body == responses[r][i]
               IN  /\ Closed(r)
                   /\ body.error = "Processor failed"
                          => body.code = exitCode[r] /\ body.details = stderr[r]
                   /\ body.raw # Absent => body.raw = stdout[r]
                   /\ body.status = 200
                          => /\ ClosedWithZero(r)
                             /\ body.timetable_source_id = created[r]
                             /\ \A q \in ConcurrentRequests :
                                    created[q] = body.timetable_source_id
                                        => Closed(q)
                             /\ \A k \in 1..Len(body.activities) :
                                    \E a \in activities :
                                        /\ a.source_id = created[r]
                                        /\ columns(a) = body.activities[k]

\* C20 witness: one invocation has its success response, for the source its
\* own child committed, while the child of the other invocation, which has
\* committed a source and printed its payload, is still running.
C20_Witness ==
    \E r, q \in ConcurrentRequests :
        /\ r # q
        /\ Len(responses[r]) = 1
        /\ responses[r][1].status = 200
        /\ responses[r][1].timetable_source_id = created[r]
        /\ Len(responses[r][1].activities) >= 1
        /\ pc[q] = "running"
        /\ created[q] # 0
        /\ created[q] < created[r]
        /\ \E f \in Fragments(stdout[q]) : IsPayload(stdout[q], f)
        /\ responses[q] = << >>

\* ---------------------------------------------------------------------
\* C21: in the UI every upload started by handleUpload with a selected file
\* whose fetch settles (resolved by the handler with an OK or a non-OK
\* status, resolved with a body that is not JSON, or rejected) eventually
\* has `uploading` reset to false, and `uploading` is true exactly while
\* handleUpload is between its start and that reset.
C21_UploadingIsReset ==
    /\ [](uploading <=> awaiting)
    /\ (settled # << >>) ~> ~uploading

\* An upload whose reply was not JSON has ended with `uploading` reset.
C21_Witness ==
    /\ ~uploading
    /\ ~awaiting
    /\ uiError = << "Unexpected token < in JSON at position 0" >>

\* ---------------------------------------------------------------------
\* C22: after the UI has normalized a successful reply, every activity it
\* stores has an activity_name that is neither null nor undefined (the
\* member activity_name of the reply's activity, else its member activity,
\* else the empty string) and notes that are a string or null, whatever
\* members the activity of the reply has.
Given(v) == v.t \notin { "null", "undefined" }

C22_NormalizedActivities ==
    response # << >> =>
        /\ Len(response[1].activities) = Len(reply[1].activities)
        /\ \A i \in DOMAIN response[1].activities :
               LET a == reply[1].activities[i]
                   b == response[1].activities[i]
                   name == IF "activity_name" \in DOMAIN a /\ Given(a.activity_name)
                           THEN a.activity_name
                           ELSE IF "activity" \in DOMAIN a /\ Given(a.activity)
                           THEN a.activity
                           ELSE Text("")
               IN  /\ Given(b.activity_name)
                   /\ b.activity_name = name
                   /\ b.notes.t \in { "string", "null" }
                   /\ b.notes = IF "notes" \in DOMAIN a THEN a.notes ELSE JsNull

\* A reply with a row of the earlier handler (no activity_name, no notes)
\* and a row with a null activity_name and a legacy activity was normalized.
C22_Witness ==
    /\ response # << >>
    /\ Len(reply[1].activities) = 2
    /\ DOMAIN reply[1].activities[1] = { "id", "day", "start_time", "end_time" }
    /\ "activity" \in DOMAIN reply[1].activities[2]
    /\ "activity_name" \in DOMAIN reply[1].activities[2]
    /\ reply[1].activities[2].activity_name = JsNull
    /\ response[1].activities[1].activity_name = Text("")
    /\ response[1].activities[2].activity_name = Text("Art")

\* ---------------------------------------------------------------------
\* C23: in the UI the selected file is always null or a file whose type is
\* in validTypes; selecting a file of another type sets the file to null and
\* sets the invalid-type error; handleUpload without a selected file only
\* sets an error, and a request is issued only with a selected file of an
\* allowed type.
C23_OnlyAllowedFiles ==
    /\ [](uiFile.present => uiFile.mimetype \in validTypes)
    /\ [][ /\ (uiFile' # uiFile /\ ~uiFile'.present)
                => uiError' = << InvalidFileType >>
           /\ (uiError' = << PleaseSelect >> /\ uiError' # uiError)
                => /\ ~uiFile.present
                   /\ UNCHANGED << uiFile, uploading, response, awaiting, reply,
                                   settled, apiVars >>
           /\ (awaiting' /\ ~awaiting)
                => uiFile.present /\ uiFile.mimetype \in validTypes
           /\ ~uiFile.present => ~awaiting' ]_vars

\* A file of another type was selected after a file of an allowed type: the
\* file is null again and the error is the invalid-type error, and nothing
\* was requested.
C23_Witness ==
    /\ ~uiFile.present
    /\ uiError = << InvalidFileType >>
    /\ \A r \in Requests : pc[r] = "new"
    /\ response # << >>

\* ---------------------------------------------------------------------
\* C24: a request that carries no file is answered with the 400 "No file
\* uploaded" response and nothing else; for it no child process exists (no
\* output, no exit, no "error" event, nothing written by a processor) and
\* the database is not opened.
C24_NoFileIsRejectedUpFront ==
    \A r \in Requests :
        (pc[r] # "new" /\ ~file[r].present) =>
            /\ pc[r] = "done"
            /\ responses[r] =
                   << ErrorBody(400, "No file uploaded", JsUndefined, Absent, Absent) >>
            /\ stdout[r] = << >>
            /\ stderr[r] = << >>
            /\ chunks[r] = 0
            /\ exitCode[r] = NotClosed
            /\ ~errorEmitted[r]
            /\ created[r] = 0
            /\ ~dbOpened[r]
            /\ sources = { 1 }
            /\ activities = StoredRows

\* A request without a file was answered.
C24_Witness ==
    \E r \in Requests :
        /\ pc[r] = "done"
        /\ ~file[r].present
        /\ Len(responses[r]) = 1
        /\ responses[r][1].status = 400

\* ---------------------------------------------------------------------
\* C25: every upload whose child process has ended, by "close" with any exit
\* status and any output or by an "error" event, has received exactly one
\* response.
C25_EndedChildIsAnswered ==
    \A r \in Requests :
        (Closed(r) \/ errorEmitted[r]) => Len(responses[r]) = 1

\* ---------------------------------------------------------------------
\* C26: in the UI, while `uploading` is true both `response` and `error` are
\* null: starting an upload clears the result and the error of the upload
\* before it, and nothing sets either of them until the upload completes.
C26_NothingShownWhileUploading ==
    uploading => response = << >> /\ uiError = << >>

\* An upload is in flight and its fetch has already resolved with the
\* handler's response, which is not shown yet.
C26_Witness ==
    /\ uploading
    /\ settled # << >>
    /\ settled[1].kind = "json"
    /\ response = << >>
    /\ uiError = << >>

\* ---------------------------------------------------------------------
\* C27: two distinct upload requests are never saved under the same file
\* name, whatever their original names are and whenever they arrive, and the
\* file whose path a request passes to its processor holds the upload of
\* that request.
C27_SavedPathsAreDistinct ==
    /\ \A r, q \in DOMAIN saved : r # q => saved[r] # saved[q]
    /\ \A r \in DOMAIN saved : pc[r] = "running" => disk[saved[r]] = r

\* ---------------------------------------------------------------------
\* C28: no step of the upload handler modifies the database: a step that
\* changes the sources or the activities table is a write of a processor and
\* changes nothing of the handler, on every path (success, not found, parse
\* failure, non-zero exit).
C28_HandlerLeavesDatabaseUnchanged ==
    [][ (sources' # sources \/ activities' # activities)
            => /\ \E r \in Requests : created[r] = 0 /\ created'[r] # 0
               /\ UNCHANGED << pc, file, stdout, stderr, responseSent, responses,
                               errorEmitted, exitCode, sourceId, uncaught,
                               dbOpened, chunks >> ]_vars

\* The handler went through its success path, database read included, and
\* the database holds what it held before the upload.
C28_Witness ==
    \E r \in Requests :
        /\ Closed(r)
        /\ dbOpened[r]
        /\ Len(responses[r]) = 1
        /\ responses[r][1].status = 200
        /\ Len(responses[r][1].activities) = 2
        /\ created[r] = 0
        /\ sources = { 1 }
        /\ activities = StoredRows

====
